---- MODULE Spec2Model ----
(***************************************************************************)
(* Root-cause analysis engines of the AIOps demo:                          *)
(*   - CausalInferenceEngine.analyze_alarms (logic.py): hierarchy,         *)
(*     redundancy and silent-failure rules, one verdict per call;          *)
(*   - LogicalRCA.analyze (inference_engine.py): signature scoring,        *)
(*     topology correlation, downstream suppression, ranking.              *)
(* Probabilities are kept in hundredths (0.55 is 55, 1.0 is 100).          *)
(* An alarm's severity is read by neither engine and is left out.          *)
(*                                                                         *)
(* topology and signatures are the fields of the engines; alarms, pc,      *)
(* result, prev_result and candidates belong to a caller that runs one     *)
(* call at a time; calls holds the frames of the calls that run            *)
(* concurrently on the same engines.                                       *)
(***************************************************************************)
EXTENDS Integers, Sequences, FiniteSets

VARIABLES topology, alarms, pc, result, prev_result, candidates,
          signatures, calls

vars == <<topology, alarms, pc, result, prev_result, candidates,
          signatures, calls>>

(***************************************************************************)
(* Bounds of the model.                                                    *)
(***************************************************************************)
\* longest alarm list handed to analyze_alarms
MaxAlarms == 3
\* longest alarm list on which analyze_alarms is called twice
MaxRepeatAlarms == 2
\* longest alarm list handed to LogicalRCA.analyze, texts of every kind
MaxRcaAlarms == 3
\* longest alarm list handed to LogicalRCA.analyze, connectivity texts only
MaxCorrelationAlarms == 4
\* layers of the topology's nodes are drawn from 1..MaxLayer
MaxLayer == 2

(***************************************************************************)
(* Values.                                                                 *)
(***************************************************************************)
\* Python's None, for Optional[str] fields and an absent root cause
None == "None"

\* ids of the nodes of the loaded topology
NodeIds == {"N1", "N2", "N3"}

\* a device id that no topology contains
GhostId == "GHOST"

DeviceIds == NodeIds \cup {GhostId}

\* the key given to an alarm whose device is absent from the topology
UnknownLayer == 999

Layers == 1..MaxLayer

Groups == {"HA_GROUP"}

\* data.NetworkNode (the id is the key of the topology map; type is unused)
NetworkNode == [layer : Layers,
                parent_id : DeviceIds \cup {None},
                redundancy_group : Groups \cup {None}]

\* parent edges: a forest in which N1 is a root and the parent of N2, and
\* N3 is a root, a second child of N1, the child of N2, or names a parent
\* the topology does not contain
ParentChoices(n) ==
    CASE n = "N1" -> {None}
      [] n = "N2" -> {"N1"}
      [] n = "N3" -> {None, "N1", "N2", GhostId}

\* the topologies an engine is constructed over
Topologies ==
    {t \in [NodeIds -> NetworkNode] :
        \A n \in NodeIds : t[n].parent_id \in ParentChoices(n)}

\* logic.Alarm
Alarm(device_id, message) == [device_id |-> device_id, message |-> message]

\* alarm texts, as sequences of words
Msg_ConnectionLost == <<"Connection", "Lost">>
Msg_SystemCrash == <<"System", "Crash">>
Msg_PowerSupplyFailed == <<"Power", "Supply", "Failed">>
Msg_FanFail == <<"Fan", "Fail">>

\* a message that is not a str: None, or the bytes of a text that was never
\* decoded
Msg_NotText == <<"<not text>">>

IsText(message) == message # Msg_NotText

(***************************************************************************)
(* Helpers on sequences.                                                   *)
(***************************************************************************)
Range(s) == {s[i] : i \in 1..Len(s)}

\* the sort key of analyze_alarms: the layer of the alarm's device, 999 when
\* the device is not in the topology
LayerKey(a, topo) ==
    IF a.device_id \in DOMAIN topo THEN topo[a.device_id].layer ELSE UnknownLayer

\* variant of InsertByKey: the comparison reversed, so the sort descends
RECURSIVE InsertByKey_Descending(_, _, _)
InsertByKey_Descending(x, ys, topo) ==
    IF ys = <<>> THEN <<x>>
    ELSE IF LayerKey(Head(ys), topo) >= LayerKey(x, topo)
         THEN <<Head(ys)>> \o InsertByKey_Descending(x, Tail(ys), topo)
         ELSE <<x>> \o ys

\* variant of InsertByKey: x goes before the elements whose key equals its
\* own, so that equal keys come out in reverse input order
RECURSIVE InsertByKey_Unstable(_, _, _)
InsertByKey_Unstable(x, ys, topo) ==
    IF ys = <<>> THEN <<x>>
    ELSE IF LayerKey(Head(ys), topo) < LayerKey(x, topo)
         THEN <<Head(ys)>> \o InsertByKey_Unstable(x, Tail(ys), topo)
         ELSE <<x>> \o ys

\* one step of a stable sort: x goes after every element whose key is <= its own
RECURSIVE InsertByKey(_, _, _)
InsertByKey(x, ys, topo) ==
    IF ys = <<>> THEN <<x>>
    ELSE IF LayerKey(Head(ys), topo) <= LayerKey(x, topo)
         THEN <<Head(ys)>> \o InsertByKey(x, Tail(ys), topo)
         ELSE <<x>> \o ys

\* variant of SortedByLayer: the list is left in its input order
SortedByLayer_Unsorted(xs, topo) == xs

\* sorted(alarms, key=layer): ascending and stable
RECURSIVE SortedByLayer(_, _)
SortedByLayer(xs, topo) ==
    IF xs = <<>> THEN <<>>
    ELSE InsertByKey(xs[Len(xs)], SortedByLayer(SubSeq(xs, 1, Len(xs) - 1), topo), topo)

(***************************************************************************)
(* CausalInferenceEngine (logic.py).                                       *)
(***************************************************************************)
\* logic.InferenceResult; root_cause_node is the node's id, or None
InferenceResult(node, reason, sop, related) ==
    [root_cause_node |-> node, root_cause_reason |-> reason,
     sop_key |-> sop, related_alarms |-> related]

\* the None that _check_silent_failure_for_parent returns when the rule
\* does not fire
NoInference == InferenceResult(None, <<>>, None, <<>>)

\* the value of result before analyze_alarms has been called
NotCalled == InferenceResult(None, <<>>, "NOT_CALLED", <<>>)

\* {a.device_id for a in alarms}
AlarmedDeviceIds(als) == {als[i].device_id : i \in 1..Len(als)}

\* variant of analyze_redundancy: the down members are compared with the
\* number of alarmed devices instead of the size of the group
analyze_redundancy_WrongLen(topo, node_id, alarmed_ids, als) ==
    LET group == topo[node_id].redundancy_group
        group_members == {n \in DOMAIN topo : topo[n].redundancy_group = group}
        down_members == {n \in group_members : n \in alarmed_ids}
    IN  IF Cardinality(down_members) = Cardinality(alarmed_ids)
        THEN InferenceResult(node_id, <<"redundancy_all_down", group>>, "DEFAULT", als)
        ELSE InferenceResult(node_id, <<"redundancy_single_node", group>>,
                             "FW_HA_WARNING", als)

\* variant of analyze_redundancy: counts the alarms raised on members of the
\* group instead of the alarmed members
analyze_redundancy_CountAlarms(topo, node_id, alarmed_ids, als) ==
    LET group == topo[node_id].redundancy_group
        group_members == {n \in DOMAIN topo : topo[n].redundancy_group = group}
        down_alarms == {i \in 1..Len(als) : als[i].device_id \in group_members}
    IN  IF Cardinality(down_alarms) = Cardinality(group_members)
        THEN InferenceResult(node_id, <<"redundancy_all_down", group>>, "DEFAULT", als)
        ELSE InferenceResult(node_id, <<"redundancy_single_node", group>>,
                             "FW_HA_WARNING", als)

\* _analyze_redundancy: all members of the group down, or only some
analyze_redundancy(topo, node_id, alarmed_ids, als) ==
    LET group == topo[node_id].redundancy_group
        group_members == {n \in DOMAIN topo : topo[n].redundancy_group = group}
        down_members == {n \in group_members : n \in alarmed_ids}
    IN  IF Cardinality(down_members) = Cardinality(group_members)
        THEN InferenceResult(node_id, <<"redundancy_all_down", group>>, "DEFAULT", als)
        ELSE InferenceResult(node_id, <<"redundancy_single_node", group>>,
                             "FW_HA_WARNING", als)

\* variant of check_silent_failure_for_parent: asks for more than one child
check_silent_failure_for_parent_MinTwo(topo, parent_id, alarmed_ids) ==
    IF parent_id \notin DOMAIN topo THEN NoInference
    ELSE LET children == {n \in DOMAIN topo : topo[n].parent_id = parent_id}
             children_down_count == Cardinality({c \in children : c \in alarmed_ids})
         IN  IF Cardinality(children) > 1 /\ children_down_count = Cardinality(children)
             THEN InferenceResult(parent_id, <<"silent_failure", parent_id>>,
                                  "L2_SILENT_FAILURE", <<>>)
             ELSE NoInference

\* _check_silent_failure_for_parent: the parent is the root cause when it is
\* in the topology, has children, and every child is alarmed
check_silent_failure_for_parent(topo, parent_id, alarmed_ids) ==
    IF parent_id \notin DOMAIN topo THEN NoInference
    ELSE LET children == {n \in DOMAIN topo : topo[n].parent_id = parent_id}
             children_down_count == Cardinality({c \in children : c \in alarmed_ids})
         IN  IF Cardinality(children) > 0 /\ children_down_count = Cardinality(children)
             THEN InferenceResult(parent_id, <<"silent_failure", parent_id>>,
                                  "L2_SILENT_FAILURE", <<>>)
             ELSE NoInference

\* variant of hierarchy_result: hands back the sorted list, not the input list
hierarchy_result_SortedRelated(topo, top_id, als) ==
    InferenceResult(top_id, <<"hierarchy", top_id>>,
                    IF topo[top_id].layer = 1 THEN "WAN_FAILURE" ELSE "DEFAULT",
                    SortedByLayer(als, topo))

\* the default branch of analyze_alarms: the hierarchy rule's verdict
hierarchy_result(topo, top_id, als) ==
    InferenceResult(top_id, <<"hierarchy", top_id>>,
                    IF topo[top_id].layer = 1 THEN "WAN_FAILURE" ELSE "DEFAULT", als)

\* variant of analyze_alarms: the silent-failure check is run on top itself
\* instead of on top's parent
analyze_alarms_SilentOnTop(topo, als) ==
    LET alarmed_device_ids == AlarmedDeviceIds(als)
        sorted_alarms == SortedByLayer(als, topo)
    IN  IF sorted_alarms = <<>>
        THEN InferenceResult(None, <<"no_alarms">>, "DEFAULT", <<>>)
        ELSE LET top_id == sorted_alarms[1].device_id
             IN  IF top_id \notin DOMAIN topo
                 THEN InferenceResult(None, <<"unknown_device">>, "DEFAULT", als)
                 ELSE IF topo[top_id].redundancy_group # None
                 THEN analyze_redundancy(topo, top_id, alarmed_device_ids, als)
                 ELSE LET silent_failure_result ==
                              IF topo[top_id].parent_id # None
                              THEN check_silent_failure_for_parent(
                                       topo, top_id, alarmed_device_ids)
                              ELSE NoInference
                      IN  IF silent_failure_result # NoInference
                          THEN silent_failure_result
                          ELSE hierarchy_result(topo, top_id, als)

\* variant of analyze_alarms: the silent-failure rule is tried before the
\* redundancy rule
analyze_alarms_SilentFirst(topo, als) ==
    LET alarmed_device_ids == AlarmedDeviceIds(als)
        sorted_alarms == SortedByLayer(als, topo)
    IN  IF sorted_alarms = <<>>
        THEN InferenceResult(None, <<"no_alarms">>, "DEFAULT", <<>>)
        ELSE LET top_id == sorted_alarms[1].device_id
             IN  IF top_id \notin DOMAIN topo
                 THEN InferenceResult(None, <<"unknown_device">>, "DEFAULT", als)
                 ELSE LET silent_failure_result ==
                              IF topo[top_id].parent_id # None
                              THEN check_silent_failure_for_parent(
                                       topo, topo[top_id].parent_id, alarmed_device_ids)
                              ELSE NoInference
                      IN  IF silent_failure_result # NoInference
                          THEN silent_failure_result
                          ELSE IF topo[top_id].redundancy_group # None
                          THEN analyze_redundancy(topo, top_id, alarmed_device_ids, als)
                          ELSE hierarchy_result(topo, top_id, als)

\* variant of analyze_alarms: a top absent from the topology is reported as
\* the root cause instead of ending the call with no root cause
analyze_alarms_UnknownAsRoot(topo, als) ==
    LET alarmed_device_ids == AlarmedDeviceIds(als)
        sorted_alarms == SortedByLayer(als, topo)
    IN  IF sorted_alarms = <<>>
        THEN InferenceResult(None, <<"no_alarms">>, "DEFAULT", <<>>)
        ELSE LET top_id == sorted_alarms[1].device_id
             IN  IF top_id \notin DOMAIN topo
                 THEN InferenceResult(top_id, <<"hierarchy", top_id>>, "DEFAULT", als)
                 ELSE IF topo[top_id].redundancy_group # None
                 THEN analyze_redundancy(topo, top_id, alarmed_device_ids, als)
                 ELSE LET silent_failure_result ==
                              IF topo[top_id].parent_id # None
                              THEN check_silent_failure_for_parent(
                                       topo, topo[top_id].parent_id, alarmed_device_ids)
                              ELSE NoInference
                      IN  IF silent_failure_result # NoInference
                          THEN silent_failure_result
                          ELSE hierarchy_result(topo, top_id, als)

\* CausalInferenceEngine.analyze_alarms
analyze_alarms(topo, als) ==
    LET alarmed_device_ids == AlarmedDeviceIds(als)
        sorted_alarms == SortedByLayer(als, topo)
    IN  IF sorted_alarms = <<>>
        THEN InferenceResult(None, <<"no_alarms">>, "DEFAULT", <<>>)
        ELSE LET top_id == sorted_alarms[1].device_id
             IN  IF top_id \notin DOMAIN topo
                 THEN InferenceResult(None, <<"unknown_device">>, "DEFAULT", als)
                 ELSE IF topo[top_id].redundancy_group # None
                 THEN analyze_redundancy(topo, top_id, alarmed_device_ids, als)
                 ELSE LET silent_failure_result ==
                              IF topo[top_id].parent_id # None
                              THEN check_silent_failure_for_parent(
                                       topo, topo[top_id].parent_id, alarmed_device_ids)
                              ELSE NoInference
                      IN  IF silent_failure_result # NoInference
                          THEN silent_failure_result
                          ELSE hierarchy_result(topo, top_id, als)

(***************************************************************************)
(* The deterministic engine as a state machine: an engine is constructed   *)
(* over a topology, the caller builds an alarm list, calls analyze_alarms  *)
(* and starts over with a new list.                                        *)
(***************************************************************************)
\* the texts of the alarms handed to analyze_alarms
CausalMessages == {Msg_ConnectionLost}

\* the table that __init__ stores in self.signatures: type, label and
\* base_score (hundredths), in table order; the engine reads it from the
\* variable signatures
Signatures ==
    << [type |-> "Hardware/Critical_Multi_Fail", label |-> "multiple hardware failure",
        base_score |-> 100],
       [type |-> "Hardware/Physical", label |-> "hardware failure (power/device)",
        base_score |-> 95],
       [type |-> "Network/Link", label |-> "physical link/interface failure",
        base_score |-> 90],
       [type |-> "Hardware/Fan", label |-> "cooling fan failure",
        base_score |-> 70],
       [type |-> "Config/Software", label |-> "configuration/protocol failure",
        base_score |-> 60],
       [type |-> "Resource/Capacity", label |-> "resource exhaustion (CPU/Memory)",
        base_score |-> 50] >>

\* the callers that run analysis calls concurrently on the same engines
Workers == {"w1", "w2"}

\* the frame of a caller that is not inside a call
IdleCall ==
    [kind |-> "none", pc |-> "idle", alarms |-> <<>>, sorted_alarms |-> <<>>,
     candidates |-> <<>>, detected_silent_parents |-> {}, result |-> NotCalled]

NoCalls == [w \in Workers |-> IdleCall]

Init ==
    /\ topology \in Topologies
    /\ alarms = <<>>
    /\ pc = "idle"
    /\ result = NotCalled
    /\ prev_result = NotCalled
    /\ candidates = <<>>
    /\ signatures = Signatures
    /\ calls = NoCalls

\* the caller appends one alarm to the list it is building
ReceiveAlarm(limit, messages) ==
    /\ pc = "idle"
    /\ Len(alarms) < limit
    /\ \E d \in DeviceIds, m \in messages : alarms' = Append(alarms, Alarm(d, m))
    /\ UNCHANGED <<topology, pc, result, prev_result, candidates, signatures, calls>>

\* variant of RunAnalyzeAlarms: the lookup of top's node removes it from the
\* topology map (pop instead of get)
RunAnalyzeAlarms_PopTop ==
    /\ result' = analyze_alarms(topology, alarms)
    /\ topology' =
          IF alarms = <<>> THEN topology
          ELSE [n \in DOMAIN topology \ {SortedByLayer(alarms, topology)[1].device_id}
                   |-> topology[n]]
    /\ UNCHANGED <<alarms, candidates, signatures, calls>>

\* the effect of engine.analyze_alarms(alarms): a result, and nothing else
\* of the engine or of the caller's list changes
RunAnalyzeAlarms ==
    /\ result' = analyze_alarms(topology, alarms)
    /\ UNCHANGED <<topology, alarms, candidates, signatures, calls>>

\* result = engine.analyze_alarms(alarms)
CallAnalyzeAlarms ==
    /\ pc = "idle"
    /\ RunAnalyzeAlarms
    /\ pc' = "done"
    /\ UNCHANGED prev_result

\* the same call once more on the same engine and list; the caller keeps
\* the result of the call before
RepeatAnalyzeAlarms ==
    /\ pc = "done"
    /\ RunAnalyzeAlarms
    /\ prev_result' = result
    /\ pc' = "done"

\* the caller drops the list and the results and builds a new list
NewScan ==
    /\ pc \in {"done", "raised"}
    /\ alarms' = <<>>
    /\ pc' = "idle"
    /\ result' = NotCalled
    /\ prev_result' = NotCalled
    /\ candidates' = <<>>
    /\ UNCHANGED <<topology, signatures, calls>>

Next ==
    \/ ReceiveAlarm(MaxAlarms, CausalMessages)
    \/ CallAnalyzeAlarms
    \/ NewScan

Spec == Init /\ [][Next]_vars

NextRepeat ==
    \/ ReceiveAlarm(MaxRepeatAlarms, CausalMessages)
    \/ CallAnalyzeAlarms
    \/ RepeatAnalyzeAlarms
    \/ NewScan

\* the deterministic engine called more than once on a list
SpecRepeat == Init /\ [][NextRepeat]_vars

(***************************************************************************)
(* LogicalRCA (inference_engine.py).                                       *)
(***************************************************************************)
\* str.lower() on one word of an alarm text
LowerWord(w) ==
    CASE w = "Connection" -> "connection"
      [] w = "Lost" -> "lost"
      [] w = "Power" -> "power"
      [] w = "Supply" -> "supply"
      [] w = "Failed" -> "failed"
      [] w = "Fan" -> "fan"
      [] w = "Fail" -> "fail"
      [] w = "System" -> "system"
      [] w = "Crash" -> "crash"
      [] OTHER -> w

\* a.message.lower()
RECURSIVE Lower(_)
Lower(msg) ==
    IF msg = <<>> THEN <<>> ELSE <<LowerWord(Head(msg))>> \o Lower(Tail(msg))

\* keyword in text (Python's substring test), on sequences of words
Contains(keyword, text) ==
    \E i \in 0..(Len(text) - Len(keyword)) :
        SubSeq(text, i + 1, i + Len(keyword)) = keyword

\* a.message.lower() of each alarm of a device
RECURSIVE LowerTexts(_)
LowerTexts(als) ==
    IF als = <<>> THEN <<>> ELSE <<Lower(Head(als).message)>> \o LowerTexts(Tail(als))

\* any(k in a.message.lower() for a in alarms for k in keywords), texts being
\* the lowered messages
AnyKeyword(keywords, texts) ==
    \E t \in Range(texts) : \E k \in keywords : Contains(k, t)

\* sig["rules"](alarms) of the i-th signature, on the lowered messages
SigRules(i, texts) ==
    CASE i = 1 -> /\ AnyKeyword({<<"power", "supply">>}, texts)
                  /\ AnyKeyword({<<"fan">>}, texts)
      [] i = 2 -> AnyKeyword({<<"power", "supply">>, <<"device", "down">>}, texts)
      [] i = 3 -> AnyKeyword({<<"interface", "down">>, <<"connection", "lost">>,
                              <<"heartbeat", "loss">>}, texts)
      [] i = 4 -> AnyKeyword({<<"fan", "fail">>}, texts)
      [] i = 5 -> AnyKeyword({<<"bgp">>, <<"ospf">>, <<"config">>}, texts)
      [] i = 6 -> AnyKeyword({<<"cpu">>, <<"memory">>, <<"high">>}, texts)

Min(a, b) == IF a <= b THEN a ELSE b

\* variant of Score: the bonus is added without the cap at 1.0
Score_Uncapped(i, count) == signatures[i].base_score + count * 2

\* min(sig["base_score"] + len(alarms) * 0.02, 1.0), count being len(alarms)
Score(i, count) == Min(signatures[i].base_score + count * 2, 100)

\* variant of BestMatch: a signature replaces best_match when its score is
\* >= max_score, so that the later of two equal scores wins
RECURSIVE BestMatch_LastOnTie(_, _, _)
BestMatch_LastOnTie(i, texts, best) ==
    IF i > Len(signatures) THEN best
    ELSE IF SigRules(i, texts) /\ Score(i, Len(texts)) >= best[2]
         THEN BestMatch_LastOnTie(i + 1, texts, <<i, Score(i, Len(texts))>>)
         ELSE BestMatch_LastOnTie(i + 1, texts, best)

\* the loop over the signatures from the i-th on: best[1] is the index of
\* best_match (0 for None) and best[2] is max_score so far
RECURSIVE BestMatch(_, _, _)
BestMatch(i, texts, best) ==
    IF i > Len(signatures) THEN best
    ELSE IF SigRules(i, texts) /\ Score(i, Len(texts)) > best[2]
         THEN BestMatch(i + 1, texts, <<i, Score(i, Len(texts))>>)
         ELSE BestMatch(i + 1, texts, best)

\* one entry of the candidates list
Candidate(id, type, label, prob, evidence, log) ==
    [id |-> id, type |-> type, label |-> label, prob |-> prob,
     alarms |-> evidence, verification_log |-> log]

\* [a.message for a in alarms]
RECURSIVE MessagesOf(_)
MessagesOf(als) ==
    IF als = <<>> THEN <<>> ELSE <<Head(als).message>> \o MessagesOf(Tail(als))

\* the keys of device_alarms in insertion order: the devices in the order of
\* their first alarm
RECURSIVE DeviceOrder(_)
DeviceOrder(als) ==
    IF als = <<>> THEN <<>>
    ELSE LET front == DeviceOrder(SubSeq(als, 1, Len(als) - 1))
             d == als[Len(als)].device_id
         IN  IF \E i \in 1..Len(front) : front[i] = d THEN front ELSE Append(front, d)

\* device_alarms[device_id]
AlarmsOfDevice(als, d) ==
    LET OfDevice(a) == a.device_id = d
    IN  SelectSeq(als, OfDevice)

\* step 2 for one device: the best signature's candidate, or Unknown/Other
ScoreDevice(d, als) ==
    LET best == BestMatch(1, LowerTexts(als), <<0, 0>>)
    IN  IF best[1] # 0
        THEN Candidate(d, signatures[best[1]].type, <<signatures[best[1]].label>>,
                       best[2], MessagesOf(als), <<>>)
        ELSE Candidate(d, "Unknown/Other", <<"other anomaly">>, 30, MessagesOf(als), <<>>)

\* step 2, the loop: one candidate for each device of order
RECURSIVE ScoreDevices(_, _)
ScoreDevices(order, als) ==
    IF order = <<>> THEN <<>>
    ELSE <<ScoreDevice(Head(order), AlarmsOfDevice(als, Head(order)))>>
             \o ScoreDevices(Tail(order), als)

\* step 2: one candidate per alarmed device, in the order of device_alarms
ScoredCandidates(als) == ScoreDevices(DeviceOrder(als), als)

\* the alarm's text denotes a loss of connectivity
IsConnectivityLoss(a) ==
    \/ Contains(<<"connection", "lost">>, Lower(a.message))
    \/ Contains(<<"interface", "down">>, Lower(a.message))

\* the alarm adds one to down_children_count[parent_id of its device]
CountsForParent(topo, a) ==
    /\ IsConnectivityLoss(a)
    /\ a.device_id \in DOMAIN topo
    /\ topo[a.device_id].parent_id # None

\* the parent_id counted by each counting alarm, in alarm order
RECURSIVE ParentHits(_, _)
ParentHits(topo, als) ==
    IF als = <<>> THEN <<>>
    ELSE LET front == ParentHits(topo, SubSeq(als, 1, Len(als) - 1))
             a == als[Len(als)]
         IN  IF CountsForParent(topo, a)
             THEN Append(front, topo[a.device_id].parent_id)
             ELSE front

\* down_children_count[pid], hits being the parent_ids counted so far
DownChildrenCount(hits, pid) ==
    Cardinality({i \in 1..Len(hits) : hits[i] = pid})

\* the keys of down_children_count in insertion order
RECURSIVE ParentOrder(_)
ParentOrder(hits) ==
    IF hits = <<>> THEN <<>>
    ELSE LET front == ParentOrder(SubSeq(hits, 1, Len(hits) - 1))
             pid == hits[Len(hits)]
         IN  IF \E i \in 1..Len(front) : front[i] = pid THEN front ELSE Append(front, pid)

\* the threshold of step 3
SilentThreshold == 2

\* detected_silent_parents
DetectedSilentParents(topo, hits) ==
    {pid \in DOMAIN topo : DownChildrenCount(hits, pid) >= SilentThreshold}

\* str(count) of the f-strings
NumStr(n) ==
    CASE n = 0 -> "0" [] n = 1 -> "1" [] n = 2 -> "2" [] n = 3 -> "3" [] n = 4 -> "4"
      [] n = 5 -> "5" [] n = 6 -> "6" [] n = 7 -> "7" [] n = 8 -> "8" [] n = 9 -> "9"

\* active_verification_log: names the count and the parent
VerificationLog(count, parent_id) == <<"Auto-Probe", NumStr(count), parent_id>>

\* f"Downstream Impact: {count} devices lost"
DownstreamImpact(count) == <<"Downstream", "Impact:", NumStr(count), "devices", "lost">>

\* variant of CorrelateParent: a candidate is synthesized whether or not the
\* parent already has one
CorrelateParent_AlwaysSynthesized(cands, parent_id, count) ==
    Append(cands, Candidate(parent_id, "Network/Silent",
                            <<"silent failure (downstream devices lost)">>, 99,
                            <<DownstreamImpact(count)>>,
                            VerificationLog(count, parent_id)))

\* variant of CorrelateParent: the synthesized candidate is given 0.5
CorrelateParent_LowSynthesized(cands, parent_id, count) ==
    IF \E i \in 1..Len(cands) : cands[i].id = parent_id
    THEN LET first == CHOOSE i \in 1..Len(cands) :
                          /\ cands[i].id = parent_id
                          /\ \A j \in 1..(i - 1) : cands[j].id # parent_id
         IN  [cands EXCEPT ![first].prob = 100,
                           ![first].label = Append(@, " (multiple downstream failures)"),
                           ![first].verification_log = VerificationLog(count, parent_id)]
    ELSE Append(cands, Candidate(parent_id, "Network/Silent",
                                 <<"silent failure (downstream devices lost)">>, 50,
                                 <<DownstreamImpact(count)>>,
                                 VerificationLog(count, parent_id)))

\* step 3 for one detected parent: raise its candidate to 1.0, or append a
\* synthesized candidate at 0.99
CorrelateParent(cands, parent_id, count) ==
    IF \E i \in 1..Len(cands) : cands[i].id = parent_id
    THEN LET first == CHOOSE i \in 1..Len(cands) :
                          /\ cands[i].id = parent_id
                          /\ \A j \in 1..(i - 1) : cands[j].id # parent_id
         IN  [cands EXCEPT ![first].prob = 100,
                           ![first].label = Append(@, " (multiple downstream failures)"),
                           ![first].verification_log = VerificationLog(count, parent_id)]
    ELSE Append(cands, Candidate(parent_id, "Network/Silent",
                                 <<"silent failure (downstream devices lost)">>, 99,
                                 <<DownstreamImpact(count)>>,
                                 VerificationLog(count, parent_id)))

\* step 3: the loop over down_children_count, first n parents done
RECURSIVE Correlate(_, _, _, _)
Correlate(topo, hits, cands, n) ==
    IF n = 0 THEN cands
    ELSE LET done == Correlate(topo, hits, cands, n - 1)
             pid == ParentOrder(hits)[n]
             count == DownChildrenCount(hits, pid)
         IN  IF count >= SilentThreshold /\ pid \in DOMAIN topo
             THEN CorrelateParent(done, pid, count)
             ELSE done

\* variant of Suppress: a candidate that correlation raised to 0.99 or more
\* is not demoted
Suppress_KeepPromoted(topo, detected, cand) ==
    IF /\ cand.id \in DOMAIN topo
       /\ topo[cand.id].parent_id \in detected
       /\ cand.prob < 99
    THEN [cand EXCEPT !.prob = 55,
                      !.label = <<"affected (spread of an upstream failure)">>,
                      !.type = "Network/Secondary"]
    ELSE cand

\* step 4 for one candidate: a child of a detected parent is demoted to 0.55
Suppress(topo, detected, cand) ==
    IF /\ cand.id \in DOMAIN topo
       /\ topo[cand.id].parent_id \in detected
    THEN [cand EXCEPT !.prob = 55,
                      !.label = <<"affected (spread of an upstream failure)">>,
                      !.type = "Network/Secondary"]
    ELSE cand

\* step 4, the loop over the candidates
RECURSIVE SuppressEach(_, _, _)
SuppressEach(topo, detected, cands) ==
    IF cands = <<>> THEN <<>>
    ELSE <<Suppress(topo, detected, Head(cands))>>
             \o SuppressEach(topo, detected, Tail(cands))

\* step 4 over the whole list, run only when a silent parent was detected
SuppressAll(topo, detected, cands) ==
    IF detected # {} THEN SuppressEach(topo, detected, cands) ELSE cands

\* variant of InsertByProb: x goes before the elements whose prob equals its
\* own, so that equal probabilities come out in reverse creation order
RECURSIVE InsertByProb_Unstable(_, _)
InsertByProb_Unstable(x, ys) ==
    IF ys = <<>> THEN <<x>>
    ELSE IF Head(ys).prob > x.prob
         THEN <<Head(ys)>> \o InsertByProb_Unstable(x, Tail(ys))
         ELSE <<x>> \o ys

\* one step of the stable descending sort: x goes after every element whose
\* prob is >= its own
RECURSIVE InsertByProb(_, _)
InsertByProb(x, ys) ==
    IF ys = <<>> THEN <<x>>
    ELSE IF Head(ys).prob >= x.prob
         THEN <<Head(ys)>> \o InsertByProb(x, Tail(ys))
         ELSE <<x>> \o ys

\* candidates.sort(key=prob, reverse=True)
RECURSIVE SortedByProb(_)
SortedByProb(xs) ==
    IF xs = <<>> THEN <<>>
    ELSE InsertByProb(xs[Len(xs)], SortedByProb(SubSeq(xs, 1, Len(xs) - 1)))

\* the candidate returned when there is no other
Sentinel == Candidate("System", "Normal", <<"operating normally">>, 0, <<>>, <<>>)

\* LogicalRCA.analyze
analyze(topo, als) ==
    LET scored == ScoredCandidates(als)
        hits == ParentHits(topo, als)
        correlated == Correlate(topo, hits, scored, Len(ParentOrder(hits)))
        suppressed == SuppressAll(topo, DetectedSilentParents(topo, hits), correlated)
        ranked == SortedByProb(suppressed)
    IN  IF ranked = <<>> THEN <<Sentinel>> ELSE ranked

(***************************************************************************)
(* The scoring engine as a state machine: a LogicalRCA is constructed over *)
(* a topology, the caller builds an alarm list and calls analyze.  The     *)
(* engine reads only parent_id of a node, so the topologies differ in      *)
(* their parent edges alone.  SpecRCA draws the alarm texts from every     *)
(* kind of text, over the topologies in which every parent is a node;      *)
(* SpecCorrelation keeps to connectivity-loss and unmatched texts, builds  *)
(* longer lists and ranges over every parent relation.                     *)
(***************************************************************************)
RcaTopologies ==
    {t \in Topologies :
        \A n \in NodeIds : t[n].layer = 1 /\ t[n].redundancy_group = None}

ScoringTopologies == {t \in RcaTopologies : t["N3"].parent_id \in NodeIds}

RcaMessages == {Msg_ConnectionLost, Msg_PowerSupplyFailed, Msg_FanFail, Msg_SystemCrash}

CorrelationMessages == {Msg_ConnectionLost, Msg_SystemCrash}

InitRCA ==
    /\ topology \in ScoringTopologies
    /\ alarms = <<>>
    /\ pc = "idle"
    /\ result = NotCalled
    /\ prev_result = NotCalled
    /\ candidates = <<>>
    /\ signatures = Signatures
    /\ calls = NoCalls

InitCorrelation ==
    /\ topology \in RcaTopologies
    /\ alarms = <<>>
    /\ pc = "idle"
    /\ result = NotCalled
    /\ prev_result = NotCalled
    /\ candidates = <<>>
    /\ signatures = Signatures
    /\ calls = NoCalls

\* a.message.lower(), and the keyword tests on its value, raise on a message
\* that is not a str (AttributeError for None, TypeError for bytes); the
\* correlation loop evaluates it for every alarm of the list
Raises(als) == \E i \in 1..Len(als) : ~IsText(als[i].message)

\* variant of CallAnalyze: the candidate of a device is the matched entry
\* of self.signatures itself instead of a new dict, so that suppression
\* writes its type into the table
CallAnalyze_AliasedSignature ==
    /\ pc = "idle"
    /\ IF Raises(alarms)
       THEN pc' = "raised" /\ candidates' = candidates
       ELSE pc' = "done" /\ candidates' = analyze(topology, alarms)
    /\ signatures' =
          IF \E i \in 1..Len(candidates') : candidates'[i].type = "Network/Secondary"
          THEN [signatures EXCEPT ![3].type = "Network/Secondary"]
          ELSE signatures
    /\ UNCHANGED <<topology, alarms, result, prev_result, calls>>

\* rca.analyze(alarms): the call returns the ranking, or the exception of a
\* predicate propagates to the caller and no list is returned
CallAnalyze ==
    /\ pc = "idle"
    /\ IF Raises(alarms)
       THEN pc' = "raised" /\ candidates' = candidates
       ELSE pc' = "done" /\ candidates' = analyze(topology, alarms)
    /\ UNCHANGED <<topology, alarms, result, prev_result, signatures, calls>>

NextRCA ==
    \/ ReceiveAlarm(MaxRcaAlarms, RcaMessages)
    \/ CallAnalyze
    \/ NewScan

SpecRCA == InitRCA /\ [][NextRCA]_vars

NextCorrelation ==
    \/ ReceiveAlarm(MaxCorrelationAlarms, CorrelationMessages)
    \/ CallAnalyze
    \/ NewScan

SpecCorrelation == InitCorrelation /\ [][NextCorrelation]_vars

(***************************************************************************)
(* Sequences of calls of both engines on the same engine objects: a list   *)
(* is analysed by either engine, analysed again, dropped for a new list.   *)
(***************************************************************************)
NextSequence ==
    \/ ReceiveAlarm(MaxRepeatAlarms, CausalMessages)
    \/ CallAnalyzeAlarms
    \/ RepeatAnalyzeAlarms
    \/ CallAnalyze
    \/ NewScan

SpecSequence == Init /\ [][NextSequence]_vars

(***************************************************************************)
(* Concurrent calls.  Each caller of Workers runs a call of either engine  *)
(* on a list of its own, one block of the method at a time; the steps of   *)
(* the callers interleave.  A frame holds the locals of the call: the      *)
(* engines' fields topology and signatures are read by every call, and     *)
(* nothing takes a lock.                                                   *)
(***************************************************************************)
\* longest alarm list of a concurrent call
MaxConcurrentAlarms == 2

ConcurrentDevices == {"N2", "N3"}

ConcurrentAlarmLists ==
    UNION {[1..k -> {Alarm(d, Msg_ConnectionLost) : d \in ConcurrentDevices}] :
              k \in 0..MaxConcurrentAlarms}

\* N1 above N2 and N3, which are apart or the two members of one group
ConcurrentTopologies ==
    {t \in Topologies :
        /\ t["N1"].layer = 1 /\ t["N2"].layer = 2 /\ t["N3"].layer = 2
        /\ t["N1"].redundancy_group = None
        /\ t["N2"].redundancy_group = t["N3"].redundancy_group}

InitConcurrent ==
    /\ topology \in ConcurrentTopologies
    /\ alarms = <<>>
    /\ pc = "idle"
    /\ result = NotCalled
    /\ prev_result = NotCalled
    /\ candidates = <<>>
    /\ signatures = Signatures
    /\ calls = NoCalls

\* the variables no step of a concurrent call writes
Shared == <<topology, alarms, pc, result, prev_result, candidates, signatures>>

\* engine.analyze_alarms(alarms) is entered with the caller's list
StartAnalyzeAlarms(w) ==
    /\ calls[w].pc = "idle"
    /\ \E als \in ConcurrentAlarmLists :
          calls' = [calls EXCEPT ![w] =
                       [IdleCall EXCEPT !.kind = "analyze_alarms", !.pc = "sort",
                                        !.alarms = als]]
    /\ UNCHANGED Shared

\* variant of SortStep: the sorted list is kept in an attribute of the
\* engine, which every call in flight reads
SortStep_SharedAttribute(w) ==
    /\ calls[w].pc = "sort"
    /\ calls' = [v \in Workers |->
                    IF v = w
                    THEN [calls[v] EXCEPT !.sorted_alarms = SortedByLayer(calls[w].alarms, topology),
                                          !.pc = "top"]
                    ELSE IF calls[v].kind = "analyze_alarms" /\ calls[v].pc # "returned"
                    THEN [calls[v] EXCEPT !.sorted_alarms = SortedByLayer(calls[w].alarms, topology)]
                    ELSE calls[v]]
    /\ UNCHANGED Shared

\* alarmed_device_ids and sorted_alarms are computed
SortStep(w) ==
    /\ calls[w].pc = "sort"
    /\ calls' = [calls EXCEPT ![w].sorted_alarms = SortedByLayer(calls[w].alarms, topology),
                              ![w].pc = "top"]
    /\ UNCHANGED Shared

\* the empty list and the unknown top return; otherwise top_node is found
TopStep(w) ==
    /\ calls[w].pc = "top"
    /\ LET sorted_alarms == calls[w].sorted_alarms
       IN  IF sorted_alarms = <<>>
           THEN calls' = [calls EXCEPT
                    ![w].result = InferenceResult(None, <<"no_alarms">>, "DEFAULT", <<>>),
                    ![w].pc = "returned"]
           ELSE IF sorted_alarms[1].device_id \notin DOMAIN topology
           THEN calls' = [calls EXCEPT
                    ![w].result = InferenceResult(None, <<"unknown_device">>, "DEFAULT",
                                                  calls[w].alarms),
                    ![w].pc = "returned"]
           ELSE calls' = [calls EXCEPT ![w].pc = "redundancy"]
    /\ UNCHANGED Shared

\* the redundancy rule returns for a top in a group
RedundancyStep(w) ==
    /\ calls[w].pc = "redundancy"
    /\ LET top_id == calls[w].sorted_alarms[1].device_id
       IN  IF topology[top_id].redundancy_group # None
           THEN calls' = [calls EXCEPT
                    ![w].result = analyze_redundancy(topology, top_id,
                                      AlarmedDeviceIds(calls[w].alarms), calls[w].alarms),
                    ![w].pc = "returned"]
           ELSE calls' = [calls EXCEPT ![w].pc = "silent"]
    /\ UNCHANGED Shared

\* the silent-failure rule returns when it fires, the hierarchy rule otherwise
SilentStep(w) ==
    /\ calls[w].pc = "silent"
    /\ LET top_id == calls[w].sorted_alarms[1].device_id
           silent_failure_result ==
               IF topology[top_id].parent_id # None
               THEN check_silent_failure_for_parent(
                        topology, topology[top_id].parent_id,
                        AlarmedDeviceIds(calls[w].alarms))
               ELSE NoInference
       IN  calls' = [calls EXCEPT
               ![w].result = IF silent_failure_result # NoInference
                             THEN silent_failure_result
                             ELSE hierarchy_result(topology, top_id, calls[w].alarms),
               ![w].pc = "returned"]
    /\ UNCHANGED Shared

\* rca.analyze(current_alarms) is entered with the caller's list
StartAnalyze(w) ==
    /\ calls[w].pc = "idle"
    /\ \E als \in ConcurrentAlarmLists :
          calls' = [calls EXCEPT ![w] =
                       [IdleCall EXCEPT !.kind = "analyze", !.pc = "score",
                                        !.alarms = als]]
    /\ UNCHANGED Shared

\* steps 1 and 2: the alarms are grouped by device and each device is scored
ScoreStep(w) ==
    /\ calls[w].pc = "score"
    /\ calls' = [calls EXCEPT ![w].candidates = ScoredCandidates(calls[w].alarms),
                              ![w].pc = "correlate"]
    /\ UNCHANGED Shared

\* step 3: the children down are counted per parent, the parents detected
\* are promoted or get a synthesized candidate
CorrelateStep(w) ==
    /\ calls[w].pc = "correlate"
    /\ LET hits == ParentHits(topology, calls[w].alarms)
       IN  calls' = [calls EXCEPT
               ![w].candidates = Correlate(topology, hits, calls[w].candidates,
                                           Len(ParentOrder(hits))),
               ![w].detected_silent_parents = DetectedSilentParents(topology, hits),
               ![w].pc = "suppress"]
    /\ UNCHANGED Shared

\* step 4: the candidates under a detected parent are demoted
SuppressStep(w) ==
    /\ calls[w].pc = "suppress"
    /\ calls' = [calls EXCEPT
            ![w].candidates = SuppressAll(topology, calls[w].detected_silent_parents,
                                          calls[w].candidates),
            ![w].pc = "rank"]
    /\ UNCHANGED Shared

\* step 5: the list is sorted, the sentinel is added to an empty list, and
\* the list is returned
RankStep(w) ==
    /\ calls[w].pc = "rank"
    /\ LET ranked == SortedByProb(calls[w].candidates)
       IN  calls' = [calls EXCEPT
               ![w].candidates = IF ranked = <<>> THEN <<Sentinel>> ELSE ranked,
               ![w].pc = "returned"]
    /\ UNCHANGED Shared

\* the caller has taken what the call returned
Finish(w) ==
    /\ calls[w].pc = "returned"
    /\ calls' = [calls EXCEPT ![w] = IdleCall]
    /\ UNCHANGED Shared

NextConcurrent ==
    \E w \in Workers :
        \/ StartAnalyzeAlarms(w)
        \/ SortStep(w)
        \/ TopStep(w)
        \/ RedundancyStep(w)
        \/ SilentStep(w)
        \/ StartAnalyze(w)
        \/ ScoreStep(w)
        \/ CorrelateStep(w)
        \/ SuppressStep(w)
        \/ RankStep(w)
        \/ Finish(w)

SpecConcurrent == InitConcurrent /\ [][NextConcurrent]_vars

(***************************************************************************)
(* Both engines on degenerate input: parent_id values that name absent     *)
(* nodes, the node itself or a cycle of nodes; alarms on a device absent   *)
(* from the topology; alarms whose message is not a text.                  *)
(***************************************************************************)
\* longest alarm list of the degenerate inputs
MaxDegenerateAlarms == 2

\* N1 and N2 on layer 1, either apart or as the two members of one group
DegenerateTopologies ==
    {t \in [NodeIds -> [layer : Layers,
                        parent_id : NodeIds \cup {None, GhostId},
                        redundancy_group : Groups \cup {None}]] :
        /\ t["N1"].layer = 1 /\ t["N2"].layer = 1
        /\ t["N1"].redundancy_group = t["N2"].redundancy_group
        /\ t["N3"].redundancy_group = None}

DegenerateMessages == {Msg_ConnectionLost, Msg_NotText}

InitDegenerate ==
    /\ topology \in DegenerateTopologies
    /\ alarms = <<>>
    /\ pc = "idle"
    /\ result = NotCalled
    /\ prev_result = NotCalled
    /\ candidates = <<>>
    /\ signatures = Signatures
    /\ calls = NoCalls

NextDegenerate ==
    \/ ReceiveAlarm(MaxDegenerateAlarms, DegenerateMessages)
    \/ CallAnalyzeAlarms
    \/ CallAnalyze
    \/ NewScan

SpecDegenerate == InitDegenerate /\ [][NextDegenerate]_vars

(***************************************************************************)
(* Vocabulary of the properties of analyze_alarms, stated on the state     *)
(* after a call (pc = "done"): result is the verdict for alarms.           *)
(***************************************************************************)
Called == pc = "done" /\ result # NotCalled

\* the layer a device counts with: its node's layer, 999 when it has no node
DeviceLayer(d) == IF d \in NodeIds THEN topology[d].layer ELSE UnknownLayer

Alarmed == {alarms[i].device_id : i \in 1..Len(alarms)}

\* the direct children of p: the nodes whose parent_id is p
ChildrenOf(p) == {n \in NodeIds : topology[n].parent_id = p}

\* the members of redundancy group g
MembersOf(g) == {n \in NodeIds : topology[n].redundancy_group = g}

\* top: the device of the earliest alarm among those of the lowest layer
TopIndex ==
    CHOOSE i \in 1..Len(alarms) :
        \A j \in 1..Len(alarms) :
            \/ DeviceLayer(alarms[i].device_id) < DeviceLayer(alarms[j].device_id)
            \/ /\ DeviceLayer(alarms[i].device_id) = DeviceLayer(alarms[j].device_id)
               /\ i <= j

Top == alarms[TopIndex].device_id

\* top is a node of the topology outside every redundancy group
TopUngrouped ==
    /\ alarms # <<>>
    /\ Top \in NodeIds
    /\ topology[Top].redundancy_group = None

\* P is silent while all of its children (at least one) are alarmed
SilentWithAllChildrenDown(P) ==
    /\ ChildrenOf(P) # {}
    /\ ChildrenOf(P) \subseteq Alarmed
    /\ P \notin Alarmed

\* C1 as claimed: whenever some node P has a child, all its children are
\* alarmed and P is not, the verdict is P with sop_key L2_SILENT_FAILURE
C1_SilentFailureAnyParent ==
    Called =>
        \A P \in NodeIds :
            SilentWithAllChildrenDown(P) =>
                /\ result.root_cause_node = P
                /\ result.sop_key = "L2_SILENT_FAILURE"

\* C1 as amended: the same, for the P that is the parent of top, the
\* lowest-layer alarmed device, when top is in no redundancy group
C1_SilentFailureParentOfTop ==
    Called =>
        \A P \in NodeIds :
            (SilentWithAllChildrenDown(P) /\ TopUngrouped /\ topology[Top].parent_id = P) =>
                /\ result.root_cause_node = P
                /\ result.sop_key = "L2_SILENT_FAILURE"

\* C1 witness: a silent parent with a single alarmed child was returned
C1_Witness ==
    /\ Called
    /\ \E P \in NodeIds :
          /\ SilentWithAllChildrenDown(P)
          /\ Cardinality(ChildrenOf(P)) = 1
          /\ TopUngrouped
          /\ topology[Top].parent_id = P
          /\ result.root_cause_node = P
          /\ result.sop_key = "L2_SILENT_FAILURE"

\* the alarmed members of group g
DownMembers(g) == MembersOf(g) \cap Alarmed

\* C2 as claimed: for any redundancy group with k of n members alarmed,
\* 0 < k < n gives sop_key FW_HA_WARNING and k = n gives DEFAULT
C2_RedundancyAnyGroup ==
    Called =>
        \A g \in Groups :
            LET n == Cardinality(MembersOf(g))
                k == Cardinality(DownMembers(g))
            IN  /\ (0 < k /\ k < n) => result.sop_key = "FW_HA_WARNING"
                /\ (0 < k /\ k = n) => result.sop_key = "DEFAULT"

\* C2 as amended: the boundary holds for the redundancy group of top, the
\* lowest-layer alarmed device
C2_RedundancyGroupOfTop ==
    Called =>
        \A g \in Groups :
            LET n == Cardinality(MembersOf(g))
                k == Cardinality(DownMembers(g))
            IN  (alarms # <<>> /\ Top \in MembersOf(g)) =>
                    /\ (0 < k /\ k < n) => result.sop_key = "FW_HA_WARNING"
                    /\ (0 < k /\ k = n) => result.sop_key = "DEFAULT"

\* C2 witness: top's group has some but not all members alarmed, next to an
\* alarmed device outside the group
C2_Witness ==
    /\ Called
    /\ alarms # <<>>
    /\ \E g \in Groups :
          /\ Top \in MembersOf(g)
          /\ DownMembers(g) # MembersOf(g)
          /\ Alarmed \ MembersOf(g) # {}
          /\ result.sop_key = "FW_HA_WARNING"

\* the call ended in the default (hierarchy) rule
ByHierarchyRule ==
    /\ Called
    /\ Len(result.root_cause_reason) > 0
    /\ result.root_cause_reason[1] = "hierarchy"

\* C3: a verdict reached through the hierarchy rule names a node whose layer
\* is <= the layer of every alarmed device (999 for a device with no node)
C3_HierarchyInvariant ==
    ByHierarchyRule =>
        \A i \in 1..Len(alarms) :
            DeviceLayer(result.root_cause_node) <= DeviceLayer(alarms[i].device_id)

\* C3 witness: the hierarchy rule answered for alarms on different layers,
\* the lowest layer not first in the list
C3_Witness ==
    /\ ByHierarchyRule
    /\ Len(alarms) >= 2
    /\ DeviceLayer(alarms[1].device_id) > DeviceLayer(result.root_cause_node)

\* C4: a second call on the same engine and the same alarm list returns the
\* result of the first call
C4_Determinism ==
    (pc = "done" /\ prev_result # NotCalled) => result = prev_result

\* C4 witness: analyze_alarms was called twice on a non-empty list and named
\* a root cause
C4_Witness ==
    /\ pc = "done"
    /\ prev_result # NotCalled
    /\ alarms # <<>>
    /\ result.root_cause_node # None

\* the silent-failure rule cannot fire for top: no parent_id, a parent that
\* is not in the topology, or a child of the parent that is not alarmed
SilentRuleOff ==
    \/ topology[Top].parent_id = None
    \/ topology[Top].parent_id \notin NodeIds
    \/ \E c \in ChildrenOf(topology[Top].parent_id) : c \notin Alarmed

\* C7: default rule: top in the topology, in no redundancy group and not
\* covered by the silent-failure rule is returned as root cause, with
\* WAN_FAILURE on layer 1 and DEFAULT otherwise, and the input list as
\* related_alarms
C7_DefaultRule ==
    (Called /\ TopUngrouped /\ SilentRuleOff) =>
        /\ result.root_cause_node = Top
        /\ result.sop_key = (IF topology[Top].layer = 1 THEN "WAN_FAILURE" ELSE "DEFAULT")
        /\ result.related_alarms = alarms

\* C7 witness: the default rule answered although top has a parent, for a
\* list that is not in layer order
C7_Witness ==
    /\ Called
    /\ TopUngrouped
    /\ SilentRuleOff
    /\ topology[Top].parent_id \in NodeIds
    /\ TopIndex > 1
    /\ result.sop_key = "WAN_FAILURE"
    /\ result.related_alarms = alarms

\* C8: redundancy rule: when top is in a redundancy group the root cause is
\* top; the alarmed members are counted as distinct devices and compared
\* with the size of the group: all alarmed gives DEFAULT, some but not all
\* gives FW_HA_WARNING
C8_RedundancyRule ==
    (Called /\ alarms # <<>> /\ Top \in NodeIds /\ topology[Top].redundancy_group # None) =>
        LET g == topology[Top].redundancy_group
            k == Cardinality({d \in Alarmed : d \in MembersOf(g)})
        IN  /\ result.root_cause_node = Top
            /\ k = Cardinality(MembersOf(g)) => result.sop_key = "DEFAULT"
            /\ k < Cardinality(MembersOf(g)) => result.sop_key = "FW_HA_WARNING"

\* C8 witness: several alarms on one member of a group whose other members
\* are not alarmed
C8_Witness ==
    /\ Called
    /\ alarms # <<>>
    /\ Top \in NodeIds
    /\ topology[Top].redundancy_group # None
    /\ Cardinality(MembersOf(topology[Top].redundancy_group)) = 2
    /\ Cardinality({i \in 1..Len(alarms) : alarms[i].device_id = Top}) >= 2
    /\ DownMembers(topology[Top].redundancy_group) = {Top}
    /\ result.sop_key = "FW_HA_WARNING"

\* every direct child of top's parent is alarmed
SiblingsAllDown ==
    /\ topology[Top].parent_id # None
    /\ ChildrenOf(topology[Top].parent_id) \subseteq Alarmed

SilentVerdict(P) ==
    /\ result.root_cause_node = P
    /\ result.sop_key = "L2_SILENT_FAILURE"
    /\ result.related_alarms = <<>>

\* C9 as claimed: top in no redundancy group, with a parent_id whose every
\* direct child is alarmed: the parent is returned with L2_SILENT_FAILURE
\* and no related alarms
C9_SilentRuleAnyParent ==
    (Called /\ TopUngrouped /\ SiblingsAllDown) => SilentVerdict(topology[Top].parent_id)

\* C9 as amended: the same, provided the parent is a node of the topology
C9_SilentRuleKnownParent ==
    (Called /\ TopUngrouped /\ SiblingsAllDown /\ topology[Top].parent_id \in NodeIds) =>
        SilentVerdict(topology[Top].parent_id)

\* C9 witness: two alarmed children of one parent, and the parent returned
C9_Witness ==
    /\ Called
    /\ TopUngrouped
    /\ SiblingsAllDown
    /\ topology[Top].parent_id \in NodeIds
    /\ Cardinality(ChildrenOf(topology[Top].parent_id)) = 2
    /\ SilentVerdict(topology[Top].parent_id)
    /\ result.root_cause_node # Top

(***************************************************************************)
(* Vocabulary of the properties of LogicalRCA.analyze, stated on the state *)
(* after a call: candidates is the ranking returned for alarms.            *)
(***************************************************************************)
Ranked == pc = "done" /\ candidates # <<>>

\* the alarms that report a loss of connectivity on a child of p
LossAlarmsUnder(p) ==
    {i \in 1..Len(alarms) :
        /\ alarms[i].message = Msg_ConnectionLost
        /\ alarms[i].device_id \in NodeIds
        /\ topology[alarms[i].device_id].parent_id = p}

\* the detected silent-failure parents: nodes whose counter is >= 2
SilentParents == {p \in NodeIds : Cardinality(LossAlarmsUnder(p)) >= 2}

\* the candidates (positions in the ranking) of device d
CandidatesOf(d) == {i \in 1..Len(candidates) : candidates[i].id = d}

\* the candidates whose node is a child of a detected silent-failure parent
Victims ==
    {i \in 1..Len(candidates) :
        /\ candidates[i].id \in NodeIds
        /\ topology[candidates[i].id].parent_id \in SilentParents}

\* C5: every candidate of the returned list has a probability in [0, 1]
C5_ScoringBounds ==
    Ranked => \A i \in 1..Len(candidates) :
                  candidates[i].prob >= 0 /\ candidates[i].prob <= 100

\* C5 witness: three power-supply alarms on one device, whose score
\* 0.95 + 3 * 0.02 is cut to 1.0
C5_Witness ==
    /\ Ranked
    /\ \E i \in 1..Len(candidates) :
          /\ candidates[i].type = "Hardware/Physical"
          /\ Len(candidates[i].alarms) = 3
          /\ candidates[i].prob = 100

\* C6: a candidate whose node's parent is a detected silent-failure parent
\* has a probability below 0.6 and below that of the parent's own candidate
C6_SuppressionInvariant ==
    Ranked =>
        \A i \in Victims :
            /\ candidates[i].prob < 60
            /\ \E j \in CandidatesOf(topology[candidates[i].id].parent_id) :
                  candidates[i].prob < candidates[j].prob

\* the alarms raised by device d itself
OwnAlarms(d) == {i \in 1..Len(alarms) : alarms[i].device_id = d}

\* C10: every detected silent-failure parent P has a candidate of
\* probability >= 0.99: 1.0 when P has alarms of its own, otherwise a
\* synthesized one at 0.99 with evidence 'Downstream Impact: N devices lost'
C10_SilentParentCandidate ==
    Ranked =>
        \A P \in SilentParents :
            \E j \in CandidatesOf(P) :
                /\ candidates[j].prob >= 99
                /\ IF OwnAlarms(P) # {}
                   THEN candidates[j].prob = 100
                   ELSE /\ candidates[j].prob = 99
                        /\ Len(candidates[j].alarms) = 1
                        /\ SubSeq(candidates[j].alarms[1], 1, 2) = <<"Downstream", "Impact:">>

(***************************************************************************)
(* Properties of both engines on degenerate input.                         *)
(***************************************************************************)
SopKeys == {"WAN_FAILURE", "FW_HA_WARNING", "L2_SILENT_FAILURE", "DEFAULT"}

\* r is a result record of analyze_alarms for the caller's list
IsResultRecord(r) ==
    /\ r.root_cause_node \in NodeIds \cup {None}
    /\ r.sop_key \in SopKeys
    /\ r.related_alarms \in {<<>>, alarms}

\* c is an entry of a ranking
IsCandidateRecord(c) ==
    /\ DOMAIN c = {"id", "type", "label", "prob", "alarms", "verification_log"}
    /\ c.prob \in 0..100

\* C11: on every topology and alarm list, cycles and absent devices and
\* parents included, a call of either engine ends with a result record and
\* never raises
C11_Totality ==
    /\ pc # "raised"
    /\ pc = "done" =>
          \/ result # NotCalled /\ IsResultRecord(result)
          \/ /\ candidates # <<>>
             /\ \A i \in 1..Len(candidates) : IsCandidateRecord(candidates[i])

\* the call ended with no conclusion for the given reason
NoConclusion(reason) ==
    /\ result.root_cause_node = None
    /\ result.root_cause_reason = <<reason>>
    /\ result.sop_key = "DEFAULT"

\* C12: analyze_alarms returns no root cause exactly when the list is empty
\* (reason 'no alarms') or top is absent from the topology (reason 'unknown
\* device'), both with sop_key DEFAULT; otherwise the root cause is a node
C12_NoConclusionOutcomes ==
    Called =>
        /\ result.root_cause_node = None <=> (alarms = <<>> \/ Top \notin NodeIds)
        /\ alarms = <<>> => NoConclusion("no_alarms")
        /\ (alarms # <<>> /\ Top \notin NodeIds) => NoConclusion("unknown_device")
        /\ (alarms # <<>> /\ Top \in NodeIds) => result.root_cause_node \in NodeIds

\* C12 witness: every alarm of a list of two names a device absent from the
\* topology, and the call ended with 'unknown device'
C12_Witness ==
    /\ Called
    /\ Len(alarms) >= 2
    /\ Top \notin NodeIds
    /\ NoConclusion("unknown_device")
    /\ result.related_alarms = alarms

(***************************************************************************)
(* Frame of a call.                                                        *)
(***************************************************************************)
\* the step is a call of analyze_alarms, the first on a list or a repeated one
IsAnalyzeAlarmsStep == pc' = "done" /\ candidates' = candidates

\* the step is a call of LogicalRCA.analyze
IsAnalyzeStep == pc = "idle" /\ pc' = "done" /\ candidates' # candidates

\* the fields of the engines and the caller's list are as before the step
FrameKept ==
    /\ topology' = topology
    /\ signatures' = signatures
    /\ alarms' = alarms

\* C13: a call of either engine leaves the topology, the signature table and
\* the caller's alarm list unchanged, and what it returns is determined by
\* the topology and that call's list alone, whatever calls came before
C13_Purity ==
    [][/\ IsAnalyzeAlarmsStep =>
            FrameKept /\ result' = analyze_alarms(topology', alarms')
       /\ IsAnalyzeStep =>
            FrameKept /\ candidates' = analyze(topology', alarms')]_vars

\* C13 witness: a call of LogicalRCA.analyze that wrote the suppression
\* values into a candidate has returned, and the table is as constructed
C13_Witness ==
    /\ pc = "done"
    /\ \E i \in 1..Len(candidates) : candidates[i].type = "Network/Secondary"
    /\ signatures = Signatures
    /\ topology \in Topologies

(***************************************************************************)
(* Concurrent calls.                                                       *)
(***************************************************************************)
\* the call of w has returned what the same call returns when run alone
ReturnedAsAlone(w) ==
    /\ calls[w].kind = "analyze_alarms" =>
          calls[w].result = analyze_alarms(topology, calls[w].alarms)
    /\ calls[w].kind = "analyze" =>
          calls[w].candidates = analyze(topology, calls[w].alarms)

\* C14: under every interleaving of the steps of concurrent calls on the
\* same topology, with no lock taken, each call returns the result it
\* returns when run alone
C14_LockFreeConcurrency ==
    \A w \in Workers : calls[w].pc = "returned" => ReturnedAsAlone(w)

\* C14 witness: a call of LogicalRCA.analyze that demoted a candidate has
\* returned while a call of analyze_alarms on another list is past its sort
C14_Witness ==
    \E w \in Workers, v \in Workers :
        /\ calls[w].kind = "analyze" /\ calls[w].pc = "returned"
        /\ \E i \in 1..Len(calls[w].candidates) :
              calls[w].candidates[i].type = "Network/Secondary"
        /\ calls[v].kind = "analyze_alarms"
        /\ calls[v].pc \in {"redundancy", "silent"}
        /\ calls[v].alarms # calls[w].alarms
        /\ ReturnedAsAlone(w)

(***************************************************************************)
(* Predicates that cannot be evaluated.                                    *)
(***************************************************************************)
\* LogicalRCA.analyze was called on the caller's list and the call is over
AnalyzeOver == pc \in {"done", "raised"} /\ result = NotCalled

\* some alarm of the list has a text no predicate can be evaluated on
HasUnreadableText == \E i \in 1..Len(alarms) : ~IsText(alarms[i].message)

\* C15: when a signature's predicate cannot be evaluated on the text of an
\* alarm, LogicalRCA.analyze takes the signature as not matching and goes
\* on: the call does not abort and the ranking holds every alarmed device
C15_MalformedPredicate ==
    (AnalyzeOver /\ HasUnreadableText) =>
        /\ pc = "done"
        /\ \A d \in Alarmed : \E i \in 1..Len(candidates) : candidates[i].id = d

(***************************************************************************)
(* Order of the alarms in analyze_alarms.                                  *)
(***************************************************************************)
\* the alarm at position i of the input comes before the one at position j
\* in the order of the claim: lower layer first, input order among equals
Before(i, j) ==
    \/ DeviceLayer(alarms[i].device_id) < DeviceLayer(alarms[j].device_id)
    \/ /\ DeviceLayer(alarms[i].device_id) = DeviceLayer(alarms[j].device_id)
       /\ i < j

\* the place of the i-th input alarm in that order
Rank(i) == 1 + Cardinality({j \in 1..Len(alarms) : Before(j, i)})

\* C16: the sort of analyze_alarms orders the alarms by layer ascending, an
\* alarm on a device absent from the topology after every alarm on a node,
\* equal layers in input order; top is the device of the earliest input alarm
\* of minimum layer, and the rules answer for that device
C16_TopSelection ==
    Called =>
        LET sorted_alarms == SortedByLayer(alarms, topology)
        IN  /\ Len(sorted_alarms) = Len(alarms)
            /\ \A i \in 1..Len(alarms) : sorted_alarms[Rank(i)] = alarms[i]
            /\ \A i, j \in 1..Len(alarms) :
                  (/\ sorted_alarms[i].device_id \notin NodeIds
                   /\ sorted_alarms[j].device_id \in NodeIds) => j < i
            /\ alarms # <<>> =>
                  /\ sorted_alarms[1] = alarms[TopIndex]
                  /\ Top \notin NodeIds => result.root_cause_node = None
                  /\ Top \in NodeIds =>
                        result.root_cause_node \in {Top, topology[Top].parent_id}

\* C16 witness: an alarm on an absent device came first, then alarms on two
\* nodes of one layer; the call answered for the first of the two
C16_Witness ==
    /\ Called
    /\ Len(alarms) = 3
    /\ alarms[1].device_id \notin NodeIds
    /\ alarms[2].device_id \in NodeIds
    /\ alarms[3].device_id \in NodeIds
    /\ alarms[2].device_id # alarms[3].device_id
    /\ DeviceLayer(alarms[2].device_id) = DeviceLayer(alarms[3].device_id)
    /\ TopIndex = 2
    /\ result.root_cause_node = alarms[2].device_id

(***************************************************************************)
(* Priority of the rules of analyze_alarms.                                *)
(***************************************************************************)
\* top is a node of the topology inside a redundancy group
TopGrouped ==
    /\ alarms # <<>>
    /\ Top \in NodeIds
    /\ topology[Top].redundancy_group # None

\* C17: the redundancy rule comes before the silent-failure rule: for a top
\* in a redundancy group the root cause is top and sop_key is FW_HA_WARNING
\* or DEFAULT, also when every child of top's parent is alarmed or top is on
\* layer 1
C17_RulePriority ==
    (Called /\ TopGrouped) =>
        /\ result.root_cause_node = Top
        /\ result.sop_key \in {"FW_HA_WARNING", "DEFAULT"}
        /\ result.root_cause_reason[1] \in {"redundancy_all_down", "redundancy_single_node"}

\* C17 witness: top is in a group, on layer 1, under a parent of the
\* topology whose children are all alarmed, and top was returned
C17_Witness ==
    /\ Called
    /\ TopGrouped
    /\ topology[Top].layer = 1
    /\ topology[Top].parent_id \in NodeIds
    /\ ChildrenOf(topology[Top].parent_id) \subseteq Alarmed
    /\ result.root_cause_node = Top
    /\ result.sop_key = "FW_HA_WARNING"

(***************************************************************************)
(* Selection of the signature of a device.                                 *)
(***************************************************************************)
\* the lowered texts of the alarms of device d
TextsOf(d) == LowerTexts(AlarmsOfDevice(alarms, d))

\* the signatures whose predicate matches the texts
Matching(texts) == {i \in 1..Len(Signatures) : SigRules(i, texts)}

\* min(base_score + alarm_count * 0.02, 1.0) of signature i
ComputedScore(i, alarm_count) ==
    LET sum == Signatures[i].base_score + 2 * alarm_count
    IN  IF sum > 100 THEN 100 ELSE sum

\* of the signatures of matching, the one of highest score, the earliest
\* among equal scores
Selected(matching, alarm_count) ==
    CHOOSE i \in matching :
        \A j \in matching :
            \/ ComputedScore(i, alarm_count) > ComputedScore(j, alarm_count)
            \/ ComputedScore(i, alarm_count) = ComputedScore(j, alarm_count) /\ i <= j

\* the candidate c of a device with these texts is as selection leaves it;
\* promoted tells that correlation set its probability
AsSelected(c, texts, promoted) ==
    LET matching == Matching(texts)
    IN  IF matching = {}
        THEN /\ c.type = "Unknown/Other"
             /\ ~promoted => c.prob = 30
        ELSE LET sel == Selected(matching, Len(texts))
             IN  /\ c.type = Signatures[sel].type
                 /\ ~promoted => c.prob = ComputedScore(sel, Len(texts))

\* C18: an alarmed device has one candidate; unless suppression rewrote it,
\* it carries the type of the matching signature of highest score (the
\* earliest on equal scores) or Unknown/Other when none matches, and unless
\* correlation promoted it, its probability is that score, or 0.3
C18_SignatureSelection ==
    Ranked =>
        LET victims == Victims
            silent == SilentParents
        IN  \A d \in Alarmed :
                /\ Cardinality(CandidatesOf(d)) = 1
                /\ \A i \in CandidatesOf(d) \ victims :
                      AsSelected(candidates[i], TextsOf(d), d \in silent)

\* C18 witness: a device with three alarms on which the first two signatures
\* both compute 1.0, and its candidate carries the first
C18_Witness ==
    /\ Ranked
    /\ \E d \in Alarmed :
          /\ {1, 2} \subseteq Matching(TextsOf(d))
          /\ ComputedScore(1, Len(TextsOf(d))) = ComputedScore(2, Len(TextsOf(d)))
          /\ \E i \in CandidatesOf(d) :
                /\ candidates[i].type = "Hardware/Critical_Multi_Fail"
                /\ candidates[i].prob = 100

(***************************************************************************)
(* Downstream suppression.                                                 *)
(***************************************************************************)
\* the candidates as scoring and correlation set them, before suppression
BeforeSuppression ==
    LET hits == ParentHits(topology, alarms)
    IN  Correlate(topology, hits, ScoredCandidates(alarms), Len(ParentOrder(hits)))

\* c has the probability, type and label of the candidate of its device in cands
SameVerdictIn(cands, c) ==
    \E j \in 1..Len(cands) :
        /\ cands[j].id = c.id
        /\ cands[j].prob = c.prob
        /\ cands[j].type = c.type
        /\ cands[j].label = c.label

\* C19: in the returned list every candidate whose node is a child of a
\* detected silent-failure parent has probability 0.55 and type
\* Network/Secondary, whether scored, promoted or synthesized before; every
\* other candidate keeps the probability, type and label that scoring and
\* correlation gave it
C19_DownstreamSuppression ==
    (Ranked /\ alarms # <<>>) =>
        LET victims == Victims
            before == BeforeSuppression
        IN  \A i \in 1..Len(candidates) :
                IF i \in victims
                THEN candidates[i].prob = 55 /\ candidates[i].type = "Network/Secondary"
                ELSE SameVerdictIn(before, candidates[i])

\* C19 witness: a detected parent with alarms of its own, promoted by
\* correlation, is itself under a detected parent and was demoted, next to a
\* candidate that suppression left alone
C19_Witness ==
    /\ Ranked
    /\ \E i \in Victims :
          /\ candidates[i].id \in SilentParents
          /\ OwnAlarms(candidates[i].id) # {}
          /\ candidates[i].prob = 55
          /\ candidates[i].type = "Network/Secondary"
    /\ \E i \in 1..Len(candidates) : i \notin Victims /\ candidates[i].prob = 99

(***************************************************************************)
(* Ranking.                                                                *)
(***************************************************************************)
\* the least element of a non-empty set of positions
Least(S) == CHOOSE i \in S : \A j \in S : i <= j

\* when the candidate of device d was created: a device with alarms at its
\* first alarm, in step 2; a synthesized parent after all of those, at the
\* first alarm counted for it, in step 3
CreatedAt(d) ==
    IF OwnAlarms(d) # {}
    THEN Least(OwnAlarms(d))
    ELSE Len(alarms) + Least(LossAlarmsUnder(d))

IsSentinel(c) == c.id = "System" /\ c.type = "Normal" /\ c.prob = 0

LossDevicesUnder(p) == {alarms[i].device_id : i \in LossAlarmsUnder(p)}

\* correlation detected the device of candidate c as a silent-failure
\* parent: it attached the verification narrative
DetectedBy(c) == c.verification_log # <<>>

\* C21: a parent is detected only when at least two distinct children carry
\* a connection-lost or interface-down alarm, and the N of a synthesized
\* candidate's evidence is the number of those children
C21_DetectionThreshold ==
    Ranked =>
        \A i \in 1..Len(candidates) :
            DetectedBy(candidates[i]) =>
                LET down == Cardinality(LossDevicesUnder(candidates[i].id))
                IN  /\ down >= 2
                    /\ OwnAlarms(candidates[i].id) = {} =>
                          candidates[i].alarms = <<DownstreamImpact(down)>>

(***************************************************************************)
(* Top rank under suppression.                                             *)
(***************************************************************************)
\* the nodes reached from n by following at most k parent edges
RECURSIVE AncestorsWithin(_, _)
AncestorsWithin(n, k) ==
    IF k = 0 \/ n \notin NodeIds \/ topology[n].parent_id \notin NodeIds
    THEN {}
    ELSE {topology[n].parent_id} \cup AncestorsWithin(topology[n].parent_id, k - 1)

\* the parent edges form a forest: no node is its own ancestor
IsForest == \A n \in NodeIds : n \notin AncestorsWithin(n, Cardinality(NodeIds))

\* C22: on a forest, when some silent-failure parent is detected, the first
\* candidate of the returned list is not the candidate of a child of a
\* detected silent-failure parent
C22_TopRankUnderSuppression ==
    (Ranked /\ IsForest /\ SilentParents # {}) => 1 \notin Victims

\* C22 witness: a detected parent was demoted under another detected parent,
\* and the list is headed by the synthesized candidate of the latter
C22_Witness ==
    /\ Ranked
    /\ IsForest
    /\ \E i \in Victims : candidates[i].id \in SilentParents
    /\ candidates[1].id \in SilentParents
    /\ candidates[1].type = "Network/Silent"
    /\ 1 \notin Victims

(***************************************************************************)
(* Silence of the inferred parent.                                         *)
(***************************************************************************)
\* C23: a result with sop_key L2_SILENT_FAILURE names a root-cause node that
\* no alarm of the input list refers to
C23_SilentParentIsSilent ==
    (Called /\ result.sop_key = "L2_SILENT_FAILURE") =>
        result.root_cause_node \notin Alarmed

(***************************************************************************)
(* Unique candidate per device.                                            *)
(***************************************************************************)
\* candidate c was synthesized by correlation: its evidence is the
\* downstream-impact line, not the messages of alarms of its own
IsSynthesized(c) ==
    /\ Len(c.alarms) = 1
    /\ Len(c.alarms[1]) >= 2
    /\ SubSeq(c.alarms[1], 1, 2) = <<"Downstream", "Impact:">>

\* C24: no two candidates of the returned list have the same id, each
\* alarmed device has exactly one candidate, and a synthesized candidate
\* belongs to a detected silent-failure parent without alarms of its own
C24_UniqueCandidate ==
    Ranked =>
        /\ \A i, j \in 1..Len(candidates) :
               candidates[i].id = candidates[j].id => i = j
        /\ \A d \in Alarmed : Cardinality(CandidatesOf(d)) = 1
        /\ \A i \in 1..Len(candidates) :
               IsSynthesized(candidates[i]) =>
                   /\ candidates[i].id \in SilentParents
                   /\ OwnAlarms(candidates[i].id) = {}

\* C24 witness: one detected parent with alarms of its own and its single,
\* promoted candidate, next to a detected parent with a synthesized one, and
\* a device with two alarms
C24_Witness ==
    /\ Ranked
    /\ \E P \in SilentParents :
          /\ OwnAlarms(P) # {}
          /\ \E i \in CandidatesOf(P) : DetectedBy(candidates[i])
    /\ \E i \in 1..Len(candidates) : IsSynthesized(candidates[i])
    /\ \E d \in Alarmed : Cardinality(OwnAlarms(d)) >= 2

(***************************************************************************)
(* Order independence of the verdict.                                      *)
(***************************************************************************)
\* the longest alarm list whose orders are compared
MaxOrderAlarms == 3

NextOrder ==
    \/ ReceiveAlarm(MaxOrderAlarms, CausalMessages)
    \/ CallAnalyzeAlarms
    \/ NewScan

\* the causal engine called on lists that are then compared with their
\* permutations
SpecOrder == Init /\ [][NextOrder]_vars

\* the list xs in every order
RECURSIVE PermutationsOf(_)
PermutationsOf(xs) ==
    IF xs = <<>> THEN {<<>>}
    ELSE UNION {{<<xs[i]>> \o rest :
                    rest \in PermutationsOf(SubSeq(xs, 1, i - 1)
                                                \o SubSeq(xs, i + 1, Len(xs)))} :
                i \in 1..Len(xs)}

AlarmPermutations == PermutationsOf(alarms)

\* exactly one device among the alarmed ones has the minimum layer
UniqueLowestDevice ==
    /\ alarms # <<>>
    /\ \A d \in Alarmed : d # Top => DeviceLayer(d) > DeviceLayer(Top)

\* C25: when exactly one alarmed device has the minimum layer, analyze_alarms
\* returns the same root-cause node and the same sop_key for every
\* permutation of the alarm list
C25_OrderIndependence ==
    (Called /\ UniqueLowestDevice) =>
        \A perm \in AlarmPermutations :
            LET other == analyze_alarms(topology, perm)
            IN  /\ other.root_cause_node = result.root_cause_node
                /\ other.sop_key = result.sop_key

\* C25 witness: three alarms of three devices, the only device of the
\* minimum layer last in the list, and a verdict that names a root cause
C25_Witness ==
    /\ Called
    /\ UniqueLowestDevice
    /\ Len(alarms) = 3
    /\ Cardinality(Alarmed) = 3
    /\ TopIndex = 3
    /\ result.root_cause_node # None

====
